---------------------------- MODULE Spec2Model ----------------------------
(***************************************************************************)
(* Model of go/sig/base/map.go: ASMap, the registry of remote ASes of the  *)
(* SIG, and ReloadConfig, which converges it to a configuration.           *)
(*                                                                         *)
(* ASMap is a sync.Map from addr.IAInt to *ASEntry.  Every sync.Map call   *)
(* (Load, Store, Delete, the start of Range, the visit of one key) is one  *)
(* atomic step; the methods of ASMap are sequences of such steps, run by   *)
(* the goroutines in Procs.  The collaborators newASEntry, ASEntry.Cleanup *)
(* and ASEntry.ReloadConfig are not part of map.go: each call of one of    *)
(* them is a step whose outcome (success or failure) is chosen freely.     *)
(***************************************************************************)
EXTENDS Integers, Sequences, FiniteSets

\* ------------------------------------------------------------- bounds
MaxAS == 2           \* AS numbers 0..MaxAS (0 is the wildcard)
MaxEntries == 2      \* entries newASEntry can create before it only fails
MaxCfg == 2          \* ASes in one configuration

\* The goroutines that use the ASMap: the writer and one more, the claims
\* about concurrent calls being about two calls.
Procs == {1, 2}

\* ------------------------------------------------------- identifiers
\* addr.ISD_AS: the pair (I, A); 0 in either part is a wildcard. The ASes
\* of the model are in one ISD.
ISD_AS == [I : {0, 1}, A : 0..MaxAS]

\* The width of the AS part of an addr.IAInt.
ASBase == 1048576

\* addr.ISD_AS.IAInt: the ISD in the high bits, the AS in the low ones.
IAInt(x) == x.I * ASBase + (x.A % ASBase)

\* addr.IAInt.IA: the inverse conversion.
IA(k) == [I |-> k \div ASBase, A |-> k % ASBase]

\* map.go:116, the wildcard test of AddIA (IsWildcardBoth: the same test
\* written with && for ||).
IsWildcardBoth(x) == x.I = 0 /\ x.A = 0
IsWildcard(x) == x.I = 0 \/ x.A = 0

\* config.Cfg.ASes: a map from ISD_AS to the (opaque) configuration of that
\* AS; the configuration of x is modelled as a value that names x.
CfgEntry(x) == [of |-> x]
Cfgs == {[x \in S |-> CfgEntry(x)] : S \in {T \in SUBSET ISD_AS : Cardinality(T) <= MaxCfg}}
NoCfg == [x \in {} |-> CfgEntry(x)]

\* ------------------------------------------------------------ sync.Map
\* A nil *ASEntry; the entries are 1, 2, ... in the order of their creation.
Nil == 0

\* ASMap.Load: (value, ok). (LoadMiss: a Load that never finds the key.)
LoadMiss(m, key) == <<Nil, FALSE>>
Load(m, key) == IF key \in DOMAIN m THEN <<m[key], TRUE>> ELSE <<Nil, FALSE>>

\* ASMap.Store. (StoreClobber: a Store that drops the other keys;
\* StoreNoop: one that stores nothing.)
StoreClobber(m, key, value) == [k \in {key} |-> value]
StoreNoop(m, key, value) == m
Store(m, key, value) == [k \in DOMAIN m \cup {key} |-> IF k = key THEN value ELSE m[k]]

\* ASMap.Delete. (DeleteNoop: a Delete that leaves the key.)
DeleteNoop(m, key) == m
Delete(m, key) == [k \in DOMAIN m \ {key} |-> m[k]]

\* ASMap.ASEntry: the entry of x, or nil.
ASEntry(m, x) == LET r == Load(m, IAInt(x)) IN IF r[2] THEN r[1] ELSE Nil

\* ASMap.Range calls f on the keys the map holds when Range starts, each
\* at most once and only if it is still in the map when its turn comes.
RangeKeys(m) == DOMAIN m


\* ---------------------------------------------------------------- state
VARIABLES
    am,          \* the ASMap: a function from the IAInt keys it holds to entries
    asEntries,   \* the entries newASEntry has created: [ia, cleanups] of each
    op,          \* op[p]: the method of ASMap goroutine p called last
    pc,          \* pc[p]: where p is in it ("done": it has returned; "idle": in none)
    ia,          \* ia[p]: the ia of the AddIA or DelIA p is in
    ae,          \* ae[p]: the local ae of that AddIA or DelIA
    cfg,         \* cfg[p]: cfg.ASes of the ReloadConfig p called
    todo,        \* todo[p]: the ASes of cfg addNewIAs has still to visit
    rng,         \* rng[p]: the keys Range has still to visit
    s,           \* s[p]: the s of addNewIAs
    sDel,        \* sDel[p]: the s of delOldIAs
    ret,         \* ret[p]: what the method p called last returned
    calls,       \* calls[p]: the calls made in that method, and how often each
    pre,         \* pre[p]: the ASMap when p called it
    live,        \* live[x]: the entry the first AddIA(x) since the last DelIA(x)
                 \* returned; its domain: the ias an AddIA succeeded for, no
                 \* DelIA having returned since
    made,        \* made[x]: the entries newASEntry created for x since then
    alone        \* alone[p]: no other goroutine has been in a method of the
                 \* ASMap during the method p called last

vars == <<am, asEntries, op, pc, ia, ae, cfg, todo, rng, s, sDel, ret, calls, pre, live, made, alone>>

ZeroIA == [I |-> 0, A |-> 0]
NoRet == [ae |-> Nil, err |-> "none", ok |-> FALSE]
EmptyMap == [k \in {} |-> Nil]

\* One call, as calls[p] records it: the function, the ia it was given (the
\* ia of the configuration, for ASEntry.ReloadConfig), the entry it was
\* called on or returned, and its error ("nil": none).
Call(fn, x, e, err) == [fn |-> fn, ia |-> x, ae |-> e, err |-> err]

\* calls[p] is a bag of calls: a function from the calls made to the number
\* of times each was made.
NoCalls == [c \in {} |-> 0]
Logged(bag, c) ==
    [d \in DOMAIN bag \cup {c} |-> IF d = c THEN (IF c \in DOMAIN bag THEN bag[c] + 1 ELSE 1) ELSE bag[d]]

Init ==
    /\ am = EmptyMap
    /\ asEntries = <<>>
    /\ op = [p \in Procs |-> "none"]
    /\ pc = [p \in Procs |-> "idle"]
    /\ ia = [p \in Procs |-> ZeroIA]
    /\ ae = [p \in Procs |-> Nil]
    /\ cfg = [p \in Procs |-> NoCfg]
    /\ todo = [p \in Procs |-> {}]
    /\ rng = [p \in Procs |-> {}]
    /\ s = [p \in Procs |-> TRUE]
    /\ sDel = [p \in Procs |-> TRUE]
    /\ ret = [p \in Procs |-> NoRet]
    /\ calls = [p \in Procs |-> NoCalls]
    /\ pre = [p \in Procs |-> EmptyMap]
    /\ live = [x \in {} |-> Nil]
    /\ made = [x \in ISD_AS |-> 0]
    /\ alone = [p \in Procs |-> TRUE]

\* A method is called.
Enter(p, name) ==
    /\ pc[p] = "idle"
    /\ op' = [op EXCEPT ![p] = name]
    /\ pre' = [pre EXCEPT ![p] = am]
    /\ alone' = [q \in Procs |->
                   IF q = p THEN \A r \in Procs \ {p} : pc[r] \in {"idle", "done"}
                   ELSE alone[q] /\ pc[q] \in {"idle", "done"}]
    /\ UNCHANGED <<ret, calls>>

\* The caller goes on after the method has returned: what is recorded of
\* the call (op, ia, cfg, s, ret, calls, pre, alone) is dropped.
Return(p) ==
    /\ pc[p] = "done"
    /\ pc' = [pc EXCEPT ![p] = "idle"]
    /\ op' = [op EXCEPT ![p] = "none"]
    /\ cfg' = [cfg EXCEPT ![p] = NoCfg]
    /\ ret' = [ret EXCEPT ![p] = NoRet]
    /\ calls' = [calls EXCEPT ![p] = NoCalls]
    /\ pre' = [pre EXCEPT ![p] = EmptyMap]
    /\ s' = [s EXCEPT ![p] = TRUE]
    /\ sDel' = [sDel EXCEPT ![p] = TRUE]
    /\ ia' = [ia EXCEPT ![p] = ZeroIA]
    /\ alone' = [alone EXCEPT ![p] = TRUE]
    /\ UNCHANGED <<am, asEntries, ae, todo, rng, live, made>>

\* ---------------------------------------------------------------- AddIA
\* map.go:126, the test of newASEntry's error. (ErrIgnored: the error is
\* not looked at.)
ErrIgnored(err) == FALSE
ErrNotNil(err) == err # "nil"

\* AddIA returns (e, err), to its caller or into the loop of addNewIAs
\* (map.go:79-86). log: calls[p] with the collaborator call of its last step.
RetAddIA(p, e, err, log) ==
    /\ calls' = [calls EXCEPT ![p] = Logged(log, Call("AddIA", ia[p], e, err))]
    /\ live' = IF err = "nil" /\ ia[p] \notin DOMAIN live
               THEN [x \in DOMAIN live \cup {ia[p]} |-> IF x = ia[p] THEN e ELSE live[x]]
               ELSE live
    /\ IF op[p] = "AddIA"
       THEN /\ pc' = [pc EXCEPT ![p] = "done"]
            /\ ret' = [ret EXCEPT ![p] = [ae |-> e, err |-> err, ok |-> err = "nil"]]
            /\ ia' = ia
            /\ ae' = [ae EXCEPT ![p] = Nil]
            /\ s' = s
       ELSE /\ ret' = ret
            /\ IF err # "nil"
               THEN /\ s' = [s EXCEPT ![p] = FALSE]
                    /\ pc' = [pc EXCEPT ![p] = "addNew_loop"]
                    /\ ia' = [ia EXCEPT ![p] = ZeroIA]
                    /\ ae' = [ae EXCEPT ![p] = Nil]
               ELSE /\ s' = s
                    /\ pc' = [pc EXCEPT ![p] = "addNew_apply"]
                    /\ ia' = ia
                    /\ ae' = [ae EXCEPT ![p] = e]

CallAddIA(p, x) ==
    /\ Enter(p, "AddIA")
    /\ ia' = [ia EXCEPT ![p] = x]
    /\ pc' = [pc EXCEPT ![p] = "add_check"]
    /\ UNCHANGED <<am, asEntries, ae, cfg, todo, rng, s, sDel, live, made>>

\* map.go:116-119
AddIACheck(p) ==
    /\ pc[p] = "add_check"
    /\ IF IsWildcard(ia[p])
       THEN RetAddIA(p, Nil, "wildcard", calls[p])
       ELSE /\ pc' = [pc EXCEPT ![p] = "add_load"]
            /\ UNCHANGED <<calls, live, ret, ia, ae, s>>
    /\ UNCHANGED <<am, asEntries, op, cfg, todo, rng, sDel, pre, made, alone>>

\* map.go:120-124
AddIALoad(p) ==
    /\ pc[p] = "add_load"
    /\ LET r == Load(am, IAInt(ia[p]))
       IN IF r[2]
          THEN RetAddIA(p, r[1], "nil", calls[p])
          ELSE /\ pc' = [pc EXCEPT ![p] = "add_new"]
               /\ UNCHANGED <<calls, live, ret, ia, ae, s>>
    /\ UNCHANGED <<am, asEntries, op, cfg, todo, rng, sDel, pre, made, alone>>

\* newASEntry(ia): a new entry, or an error and no entry.
NewASEntryResults ==
    {<<Nil, "newASEntry">>}
        \cup (IF Len(asEntries) < MaxEntries THEN {<<Len(asEntries) + 1, "nil">>} ELSE {})

\* map.go:125-128
AddIANew(p) ==
    /\ pc[p] = "add_new"
    /\ \E r \in NewASEntryResults :
         LET rec == Call("newASEntry", ia[p], r[1], r[2])
         IN /\ asEntries' = IF r[2] = "nil"
                             THEN Append(asEntries, [ia |-> ia[p], cleanups |-> 0])
                             ELSE asEntries
            /\ made' = IF r[2] = "nil" THEN [made EXCEPT ![ia[p]] = @ + 1] ELSE made
            /\ IF ErrNotNil(r[2])
               THEN RetAddIA(p, Nil, r[2], Logged(calls[p], rec))
               ELSE /\ pc' = [pc EXCEPT ![p] = "add_store"]
                    /\ ae' = [ae EXCEPT ![p] = r[1]]
                    /\ calls' = [calls EXCEPT ![p] = Logged(@, rec)]
                    /\ UNCHANGED <<live, ret, ia, s>>
    /\ UNCHANGED <<am, op, cfg, todo, rng, sDel, pre, alone>>

\* map.go:129-130
AddIAStore(p) ==
    /\ pc[p] = "add_store"
    /\ am' = Store(am, IAInt(ia[p]), ae[p])
    /\ RetAddIA(p, ae[p], "nil", calls[p])
    /\ UNCHANGED <<asEntries, op, cfg, todo, rng, sDel, pre, made, alone>>

\* ---------------------------------------------------------------- DelIA
\* map.go:137, the test of Load's ok. (FoundAlways: ok is not looked at.)
FoundAlways(ok) == FALSE
NotFound(ok) == ~ok

\* DelIA returns err, to its caller or into the visit of delOldIAs
\* (map.go:100-107). log: as for RetAddIA.
RetDelIA(p, err, log) ==
    /\ calls' = [calls EXCEPT ![p] = Logged(log, Call("DelIA", ia[p], Nil, err))]
    /\ live' = [x \in DOMAIN live \ {ia[p]} |-> live[x]]
    /\ made' = [made EXCEPT ![ia[p]] = 0]
    /\ ae' = [ae EXCEPT ![p] = Nil]
    /\ ia' = IF op[p] = "DelIA" THEN ia ELSE [ia EXCEPT ![p] = ZeroIA]
    /\ IF op[p] = "DelIA"
       THEN /\ pc' = [pc EXCEPT ![p] = "done"]
            /\ ret' = [ret EXCEPT ![p] = [ae |-> Nil, err |-> err, ok |-> err = "nil"]]
            /\ sDel' = sDel
       ELSE /\ ret' = ret
            /\ pc' = [pc EXCEPT ![p] = "delOld_visit"]
            /\ sDel' = IF err # "nil" THEN [sDel EXCEPT ![p] = FALSE] ELSE sDel

CallDelIA(p, x) ==
    /\ Enter(p, "DelIA")
    /\ ia' = [ia EXCEPT ![p] = x]
    /\ pc' = [pc EXCEPT ![p] = "del_load"]
    /\ UNCHANGED <<am, asEntries, ae, cfg, todo, rng, s, sDel, live, made>>

\* map.go:135-139
DelIALoad(p) ==
    /\ pc[p] = "del_load"
    /\ LET r == Load(am, IAInt(ia[p]))
       IN IF NotFound(r[2])
          THEN RetDelIA(p, "notfound", calls[p])
          ELSE /\ pc' = [pc EXCEPT ![p] = "del_delete"]
               /\ ae' = [ae EXCEPT ![p] = r[1]]
               /\ UNCHANGED <<calls, live, made, ret, ia, sDel>>
    /\ UNCHANGED <<am, asEntries, op, cfg, todo, rng, s, pre, alone>>

\* map.go:140
DelIADelete(p) ==
    /\ pc[p] = "del_delete"
    /\ am' = Delete(am, IAInt(ia[p]))
    /\ pc' = [pc EXCEPT ![p] = "del_cleanup"]
    /\ UNCHANGED <<asEntries, op, ia, ae, cfg, todo, rng, s, sDel, ret, calls, pre, live, made, alone>>

\* ASEntry.Cleanup on entry e: it is counted on the entry.
Cleanup(es, e) ==
    IF e \in 1..Len(es) THEN [es EXCEPT ![e].cleanups = @ + 1] ELSE es

\* map.go:141
DelIACleanup(p) ==
    /\ pc[p] = "del_cleanup"
    /\ asEntries' = Cleanup(asEntries, ae[p])
    /\ \E err \in {"nil", "cleanup"} :
         RetDelIA(p, err, Logged(calls[p], Call("Cleanup", ia[p], ae[p], err)))
    /\ UNCHANGED <<am, op, cfg, todo, rng, s, pre, alone>>

\* --------------------------------------------------------- ReloadConfig
\* map.go:69-70: delOldIAs is called whatever addNewIAs returned.
\* (SkipsOnFailure: s && am.delOldIAs(cfg), which Go short-circuits.)
SkipsOnFailure(sAdd) == sAdd
RunsDelOldIAs(sAdd) == TRUE

\* map.go:70, the value ReloadConfig returns. (ResultOfDelOnly: s is
\* dropped.)
ResultOfDelOnly(sAdd, sDeletion) == sDeletion
ReloadConfigResult(sAdd, sDeletion) == sDeletion /\ sAdd

\* map.go:68: ReloadConfig calls addNewIAs first. (DelOldIAsFirst: it calls
\* delOldIAs instead.)
DelOldIAsFirst == "delOld_range"
AddNewIAsFirst == "addNew_loop"

\* ReloadConfig returns ok.
RetReloadConfig(p, ok) ==
    /\ pc' = [pc EXCEPT ![p] = "done"]
    /\ ret' = [ret EXCEPT ![p] = [ae |-> Nil, err |-> "nil", ok |-> ok]]

\* map.go:67-69 and 75
CallReloadConfig(p, c) ==
    /\ Enter(p, "ReloadConfig")
    /\ cfg' = [cfg EXCEPT ![p] = c]
    /\ todo' = [todo EXCEPT ![p] = DOMAIN c]
    /\ s' = [s EXCEPT ![p] = TRUE]
    /\ sDel' = [sDel EXCEPT ![p] = TRUE]
    /\ pc' = [pc EXCEPT ![p] = AddNewIAsFirst]
    /\ UNCHANGED <<am, asEntries, ia, ae, rng, live, made>>

\* map.go:76-79: the next AS of cfg.ASes, in the order Go's map gives them.
AddNewIAsNext(p) ==
    /\ pc[p] = "addNew_loop"
    /\ \E x \in todo[p] :
         /\ todo' = [todo EXCEPT ![p] = @ \ {x}]
         /\ ia' = [ia EXCEPT ![p] = x]
    /\ pc' = [pc EXCEPT ![p] = "add_check"]
    /\ UNCHANGED <<am, asEntries, op, ae, cfg, rng, s, sDel, ret, calls, pre, live, made, alone>>

\* map.go:86-87: ae.ReloadConfig(cfgEntry), which returns true or false.
AddNewIAsApply(p) ==
    /\ pc[p] = "addNew_apply"
    /\ \E ok \in BOOLEAN :
         /\ s' = [s EXCEPT ![p] = ok /\ @]
         /\ calls' = [calls EXCEPT ![p] =
               Logged(@, Call("ASEntry.ReloadConfig", cfg[p][ia[p]].of, ae[p],
                              IF ok THEN "nil" ELSE "false"))]
    /\ pc' = [pc EXCEPT ![p] = "addNew_loop"]
    /\ ia' = [ia EXCEPT ![p] = ZeroIA]
    /\ ae' = [ae EXCEPT ![p] = Nil]
    /\ UNCHANGED <<am, asEntries, op, cfg, todo, rng, sDel, ret, pre, live, made, alone>>

\* map.go:89 and 69-70: addNewIAs returns s.
AddNewIAsDone(p) ==
    /\ pc[p] = "addNew_loop"
    /\ todo[p] = {}
    /\ IF RunsDelOldIAs(s[p])
       THEN /\ pc' = [pc EXCEPT ![p] = "delOld_range"]
            /\ ret' = ret
       ELSE RetReloadConfig(p, FALSE)
    /\ UNCHANGED <<am, asEntries, op, ia, ae, cfg, todo, rng, s, sDel, calls, pre, live, made, alone>>

\* map.go:93-95: Range starts.
DelOldIAsRange(p) ==
    /\ pc[p] = "delOld_range"
    /\ rng' = [rng EXCEPT ![p] = RangeKeys(am)]
    /\ sDel' = [sDel EXCEPT ![p] = TRUE]
    /\ pc' = [pc EXCEPT ![p] = "delOld_visit"]
    /\ UNCHANGED <<am, asEntries, op, ia, ae, cfg, todo, s, ret, calls, pre, live, made, alone>>

\* map.go:95-100: Range comes to key k; the callback calls DelIA if the ia
\* of k is not in cfg.
DelOldIAsVisit(p) ==
    /\ pc[p] = "delOld_visit"
    /\ \E k \in rng[p] :
         /\ rng' = [rng EXCEPT ![p] = @ \ {k}]
         /\ IF k \in DOMAIN am /\ IA(k) \notin DOMAIN cfg[p]
            THEN /\ ia' = [ia EXCEPT ![p] = IA(k)]
                 /\ pc' = [pc EXCEPT ![p] = "del_load"]
            ELSE UNCHANGED <<ia, pc>>
    /\ UNCHANGED <<am, asEntries, op, ae, cfg, todo, s, sDel, ret, calls, pre, live, made, alone>>

\* map.go:111 and 70: Range is over, delOldIAs returns s and ReloadConfig
\* its result.
DelOldIAsDone(p) ==
    /\ pc[p] = "delOld_visit"
    /\ rng[p] = {}
    /\ RetReloadConfig(p, ReloadConfigResult(s[p], sDel[p]))
    /\ UNCHANGED <<am, asEntries, op, ia, ae, cfg, todo, rng, s, sDel, calls, pre, live, made, alone>>

\* ------------------------------------------------------------- readers
\* map.go:145: a goroutine calls ASEntry(x).
CallASEntry(p, x) ==
    /\ Enter(p, "ASEntry")
    /\ ia' = [ia EXCEPT ![p] = x]
    /\ pc' = [pc EXCEPT ![p] = "lookup_load"]
    /\ UNCHANGED <<am, asEntries, ae, cfg, todo, rng, s, sDel, live, made>>

\* map.go:146-150: the Load of ASEntry, and its return: the entry, or nil.
ASEntryLoad(p) ==
    /\ pc[p] = "lookup_load"
    /\ LET e == ASEntry(am, ia[p])
       IN ret' = [ret EXCEPT ![p] = [ae |-> e, err |-> "nil", ok |-> e # Nil]]
    /\ pc' = [pc EXCEPT ![p] = "done"]
    /\ UNCHANGED <<am, asEntries, op, ia, ae, cfg, todo, rng, s, sDel, calls, pre, live, made, alone>>

\* map.go:61: a goroutine calls Range(f).
CallRange(p) ==
    /\ Enter(p, "Range")
    /\ pc' = [pc EXCEPT ![p] = "range_start"]
    /\ UNCHANGED <<am, asEntries, ia, ae, cfg, todo, rng, s, sDel, live, made>>

\* map.go:62: sync.Map.Range starts on the keys the map has.
RangeStart(p) ==
    /\ pc[p] = "range_start"
    /\ rng' = [rng EXCEPT ![p] = RangeKeys(am)]
    /\ pc' = [pc EXCEPT ![p] = "range_visit"]
    /\ UNCHANGED <<am, asEntries, op, ia, ae, cfg, todo, s, sDel, ret, calls, pre, live, made, alone>>

\* map.go:62-64: Range comes to key k. A key deleted since Range started is
\* passed over; for any other, f is called with the ia of k and the entry
\* the map has for k now (ia[p], ae[p]). Range ends when f returns false.
RangeVisit(p) ==
    /\ pc[p] = "range_visit"
    /\ \E k \in rng[p] :
         IF k \in DOMAIN am
         THEN /\ ia' = [ia EXCEPT ![p] = IA(k)]
              /\ ae' = [ae EXCEPT ![p] = am[k]]
              /\ \E more \in BOOLEAN : rng' = [rng EXCEPT ![p] = IF more THEN @ \ {k} ELSE {}]
         ELSE /\ rng' = [rng EXCEPT ![p] = @ \ {k}]
              /\ UNCHANGED <<ia, ae>>
    /\ UNCHANGED <<am, asEntries, op, pc, cfg, todo, s, sDel, ret, calls, pre, live, made, alone>>

\* map.go:62-65: Range is over.
RangeDone(p) ==
    /\ pc[p] = "range_visit"
    /\ rng[p] = {}
    /\ pc' = [pc EXCEPT ![p] = "done"]
    /\ ia' = [ia EXCEPT ![p] = ZeroIA]
    /\ ae' = [ae EXCEPT ![p] = Nil]
    /\ UNCHANGED <<am, asEntries, op, cfg, todo, rng, s, sDel, ret, calls, pre, live, made, alone>>

\* ------------------------------------------------------- specifications
\* The steps inside the methods.
Step(p) ==
    \/ AddIACheck(p)
    \/ AddIALoad(p)
    \/ AddIANew(p)
    \/ AddIAStore(p)
    \/ DelIALoad(p)
    \/ DelIADelete(p)
    \/ DelIACleanup(p)
    \/ AddNewIAsNext(p)
    \/ AddNewIAsApply(p)
    \/ AddNewIAsDone(p)
    \/ DelOldIAsRange(p)
    \/ DelOldIAsVisit(p)
    \/ DelOldIAsDone(p)

\* The single writer ASMap is made for.
Writer == 1

Next ==
    \/ \E x \in ISD_AS : CallAddIA(Writer, x)
    \/ \E x \in ISD_AS : CallDelIA(Writer, x)
    \/ \E c \in Cfgs : CallReloadConfig(Writer, c)
    \/ Step(Writer)
    \/ Return(Writer)

Spec == Init /\ [][Next]_vars

\* Goroutines that call AddIA at the same time, for different ias: AddIA(x)
\* is called while no other goroutine is in AddIA(x) or has just returned
\* from it.
CallAddIAOther(p, x) ==
    /\ \A q \in Procs \ {p} : pc[q] = "idle" \/ ia[q] # x
    /\ CallAddIA(p, x)

NextAddIAs ==
    \E p \in Procs :
       \/ \E x \in ISD_AS : CallAddIAOther(p, x)
       \/ AddIACheck(p)
       \/ AddIALoad(p)
       \/ AddIANew(p)
       \/ AddIAStore(p)
       \/ Return(p)

SpecAddIAs == Init /\ [][NextAddIAs]_vars

\* Goroutines that call AddIA at the same time, for any ias, the same ia
\* among them.
NextRacingAddIAs ==
    \E p \in Procs :
       \/ \E x \in ISD_AS : CallAddIA(p, x)
       \/ AddIACheck(p)
       \/ AddIALoad(p)
       \/ AddIANew(p)
       \/ AddIAStore(p)
       \/ Return(p)

SpecRacingAddIAs == Init /\ [][NextRacingAddIAs]_vars

\* Goroutines that call DelIA at the same time, for any ias, the same ia
\* among them. The entries they remove are those of AddIA calls of the
\* writer, made while no DelIA is at work. The ias are those that can have
\* an entry.
ConcreteIAs == {x \in ISD_AS : x.I # 0 /\ x.A # 0}

CallAddIAFirst(x) ==
    /\ \A q \in Procs : pc[q] \in {"idle", "done"}
    /\ CallAddIA(Writer, x)

CallDelIARacing(p, x) ==
    /\ \A q \in Procs : pc[q] \notin {"add_check", "add_load", "add_new", "add_store"}
    /\ CallDelIA(p, x)

NextRacingDelIAs ==
    \/ \E x \in ConcreteIAs : CallAddIAFirst(x)
    \/ AddIACheck(Writer)
    \/ AddIALoad(Writer)
    \/ AddIANew(Writer)
    \/ AddIAStore(Writer)
    \/ \E p \in Procs :
          \/ \E x \in ConcreteIAs : CallDelIARacing(p, x)
          \/ DelIALoad(p)
          \/ DelIADelete(p)
          \/ DelIACleanup(p)
          \/ Return(p)

SpecRacingDelIAs == Init /\ [][NextRacingDelIAs]_vars

\* Goroutines that each call ReloadConfig once, at the same time or one
\* after the other, with configurations of at most one AS, of an ia that
\* can have an entry.
ConcreteCfgs == {c \in Cfgs : DOMAIN c \subseteq ConcreteIAs /\ Cardinality(DOMAIN c) <= 1}

NextRacingPasses ==
    \E p \in Procs :
       \/ \E c \in ConcreteCfgs : CallReloadConfig(p, c)
       \/ Step(p)

SpecRacingPasses == Init /\ [][NextRacingPasses]_vars

\* One writer that calls AddIA and DelIA, and one goroutine that reads the
\* ASMap at the same time, with ASEntry, for ias that can have an entry, and
\* with Range.
Reader == 2

NextReaders ==
    \/ \E x \in ISD_AS : CallAddIA(Writer, x)
    \/ \E x \in ISD_AS : CallDelIA(Writer, x)
    \/ AddIACheck(Writer)
    \/ AddIALoad(Writer)
    \/ AddIANew(Writer)
    \/ AddIAStore(Writer)
    \/ DelIALoad(Writer)
    \/ DelIADelete(Writer)
    \/ DelIACleanup(Writer)
    \/ Return(Writer)
    \/ \E x \in ConcreteIAs : CallASEntry(Reader, x)
    \/ ASEntryLoad(Reader)
    \/ CallRange(Reader)
    \/ RangeStart(Reader)
    \/ RangeVisit(Reader)
    \/ RangeDone(Reader)
    \/ Return(Reader)

SpecReaders == Init /\ [][NextReaders]_vars

\* ---------------------------------------------------------------- claims
\* How often call c is in bag.
Count(bag, c) == IF c \in DOMAIN bag THEN bag[c] ELSE 0

\* The calls of function fn in bag.
CallsOf(bag, fn) == {c \in DOMAIN bag : c.fn = fn}

\* The places of AddIA and of DelIA.
InAddIA == {"add_check", "add_load", "add_new", "add_store"}
InDelIA == {"del_load", "del_delete", "del_cleanup"}

\* In this step the AddIA p is in returns (e, err).
AddIAReturns(p, e, err) ==
    /\ pc[p] \in InAddIA
    /\ pc'[p] \notin InAddIA
    /\ Count(calls'[p], Call("AddIA", ia[p], e, err)) = Count(calls[p], Call("AddIA", ia[p], e, err)) + 1
    /\ op[p] = "AddIA" => pc'[p] = "done" /\ ret'[p] = [ae |-> e, err |-> err, ok |-> err = "nil"]
    /\ op[p] = "ReloadConfig" =>
          IF err = "nil" THEN pc'[p] = "addNew_apply" /\ ae'[p] = e /\ s'[p] = s[p]
                         ELSE pc'[p] = "addNew_loop" /\ s'[p] = FALSE

\* In this step the DelIA p is in returns err.
DelIAReturns(p, err) ==
    /\ pc[p] \in InDelIA
    /\ pc'[p] \notin InDelIA
    /\ Count(calls'[p], Call("DelIA", ia[p], Nil, err)) = Count(calls[p], Call("DelIA", ia[p], Nil, err)) + 1
    /\ op[p] = "DelIA" => pc'[p] = "done" /\ ret'[p] = [ae |-> Nil, err |-> err, ok |-> err = "nil"]
    /\ op[p] = "ReloadConfig" =>
          /\ pc'[p] = "delOld_visit"
          /\ sDel'[p] = (sDel[p] /\ err = "nil")

\* This step calls no function fn in p.
NoCallOf(p, fn) == \A c \in CallsOf(calls'[p], fn) : Count(calls'[p], c) = Count(calls[p], c)

\* The keys of the non-wildcard ias.
IsConcrete(x) == x.I # 0 /\ x.A # 0

\* C1: AddIA is idempotent. In a run of AddIA(x) calls with no DelIA(x) in
\* between, for a non-wildcard x: the first call that returns an entry has
\* had newASEntry create it and has stored it under x; every later call
\* returns that same entry, straight from its Load, newASEntry is not called
\* again (one entry has been created for x) and the ASMap is unchanged.
C1_AddIAIdempotent ==
    [][\A p \in Procs : \A e \in 0..Len(asEntries') :
          (AddIAReturns(p, e, "nil") /\ IsConcrete(ia[p])) =>
             IF ia[p] \in DOMAIN live
             THEN /\ e = live[ia[p]]
                  /\ pc[p] = "add_load"
                  /\ made[ia[p]] = 1
                  /\ made' = made
                  /\ asEntries' = asEntries
                  /\ am' = am
                  /\ NoCallOf(p, "newASEntry")
             ELSE /\ made'[ia[p]] = 1
                  /\ IAInt(ia[p]) \in DOMAIN am'
                  /\ am'[IAInt(ia[p])] = e
                  /\ live'[ia[p]] = e
    ]_vars

\* A second AddIA(x) has returned the entry that was already there.
C1_Witness ==
    /\ pc[Writer] = "done"
    /\ op[Writer] = "AddIA"
    /\ ret[Writer].ok
    /\ IAInt(ia[Writer]) \in DOMAIN pre[Writer]
    /\ ret[Writer].ae = pre[Writer][IAInt(ia[Writer])]

\* C2: AddIA of an ia with I = 0 or A = 0 returns an error and no entry at
\* its first test, whatever the ASMap holds: newASEntry is not called, no
\* entry is created and the ASMap is as it was.
C2_AddIAWildcard ==
    [][\A p \in Procs :
          (pc[p] = "add_check" /\ pc'[p] # "add_check" /\ (ia[p].I = 0 \/ ia[p].A = 0)) =>
             /\ AddIAReturns(p, Nil, "wildcard")
             /\ NoCallOf(p, "newASEntry")
             /\ asEntries' = asEntries
             /\ made' = made
             /\ am' = am
             /\ op[p] = "AddIA" => am' = pre[p]
    ]_vars

\* AddIA of an ia that is a wildcard in one part only has returned, the
\* ASMap holding an entry.
C2_Witness ==
    /\ pc[Writer] = "done"
    /\ op[Writer] = "AddIA"
    /\ ia[Writer].I # 0
    /\ ia[Writer].A = 0
    /\ ret[Writer].err = "wildcard"
    /\ DOMAIN am # {}

\* C3: when newASEntry fails in AddIA(x), x being absent, AddIA returns
\* that error and no entry, and the ASMap is unchanged: x is still absent,
\* for ASEntry(x) and for Range.
C3_AddIAFactoryFails ==
    [][\A p \in Procs :
          (/\ pc[p] = "add_new"
           /\ Count(calls'[p], Call("newASEntry", ia[p], Nil, "newASEntry"))
                 > Count(calls[p], Call("newASEntry", ia[p], Nil, "newASEntry"))) =>
             /\ AddIAReturns(p, Nil, "newASEntry")
             /\ am' = am
             /\ asEntries' = asEntries
             /\ IAInt(ia[p]) \notin DOMAIN am'
             /\ ASEntry(am', ia[p]) = Nil
             /\ IAInt(ia[p]) \notin RangeKeys(am')
             /\ op[p] = "AddIA" => am' = pre[p]
    ]_vars

\* AddIA has returned the error of newASEntry, the ASMap holding another
\* entry.
C3_Witness ==
    /\ pc[Writer] = "done"
    /\ op[Writer] = "AddIA"
    /\ ret[Writer].err = "newASEntry"
    /\ DOMAIN am # {}

\* C4: DelIA of an ia the ASMap has no entry for returns the not-found
\* error at its Load: Cleanup is called on no entry and the ASMap, keys
\* and entries, is as it was.
C4_DelIAAbsent ==
    [][\A p \in Procs :
          (pc[p] = "del_load" /\ pc'[p] # "del_load" /\ IAInt(ia[p]) \notin DOMAIN am) =>
             /\ DelIAReturns(p, "notfound")
             /\ NoCallOf(p, "Cleanup")
             /\ asEntries' = asEntries
             /\ am' = am
             /\ op[p] = "DelIA" => am' = pre[p]
    ]_vars

\* DelIA has returned not-found, the ASMap holding another entry.
C4_Witness ==
    /\ pc[Writer] = "done"
    /\ op[Writer] = "DelIA"
    /\ ret[Writer].err = "notfound"
    /\ IsConcrete(ia[Writer])
    /\ DOMAIN am # {}

\* The calls of Cleanup in bag, each counted as often as it was made.
NumCleanups(bag, e) ==
    Count(bag, Call("Cleanup", asEntries[e].ia, e, "nil"))
        + Count(bag, Call("Cleanup", asEntries[e].ia, e, "cleanup"))

\* C5: a DelIA(x) of the single writer that finds x removes the key of x
\* and no other, and calls Cleanup once, on the entry x had; DelIA returns
\* what Cleanup returned, and when that is an error x is absent all the same.
C5_DelIAPresent ==
    \A p \in Procs :
       /\ (pc[p] = "done" /\ op[p] = "DelIA" /\ IAInt(ia[p]) \in DOMAIN pre[p]) =>
             LET k == IAInt(ia[p])
                 e == pre[p][k]
             IN /\ DOMAIN am = DOMAIN pre[p] \ {k}
                /\ \A j \in DOMAIN am : am[j] = pre[p][j]
                /\ ret[p].err \in {"nil", "cleanup"}
                /\ CallsOf(calls[p], "Cleanup") = {Call("Cleanup", ia[p], e, ret[p].err)}
                /\ NumCleanups(calls[p], e) = 1
                /\ asEntries[e].cleanups = 1
       /\ \A c \in CallsOf(calls[p], "DelIA") :
             c.err # "notfound" =>
                /\ calls[p][c] = 1
                /\ c.err \in {"nil", "cleanup"}
                /\ IAInt(c.ia) \in DOMAIN pre[p]
                /\ IAInt(c.ia) \notin DOMAIN am
                /\ Count(calls[p], Call("Cleanup", c.ia, pre[p][IAInt(c.ia)], c.err)) = 1
                /\ NumCleanups(calls[p], pre[p][IAInt(c.ia)]) = 1
                /\ asEntries[pre[p][IAInt(c.ia)]].cleanups = 1

\* DelIA has returned the error of Cleanup, and another entry is left.
C5_Witness ==
    /\ pc[Writer] = "done"
    /\ op[Writer] = "DelIA"
    /\ ret[Writer].err = "cleanup"
    /\ IAInt(ia[Writer]) \in DOMAIN pre[Writer]
    /\ IAInt(ia[Writer]) \notin DOMAIN am
    /\ DOMAIN am # {}

\* A ReloadConfig of p has returned.
PassDone(p) == pc[p] = "done" /\ op[p] = "ReloadConfig"

\* The calls of the pass of p that failed: AddIA and DelIA with an error,
\* ASEntry.ReloadConfig with false.
Failed(p, fn) == {c \in CallsOf(calls[p], fn) : c.err # "nil"}

\* The keys the ASMap held when the pass of p began and cfg has no AS for.
Stale(p) == {k \in DOMAIN pre[p] : IA(k) \notin DOMAIN cfg[p]}

\* C6: ReloadConfig runs delOldIAs whatever addNewIAs returned: when it
\* has returned, DelIA has been called for every ia that was in the ASMap
\* and is not in cfg, and none of them is in the ASMap, also when an AddIA
\* or an ASEntry.ReloadConfig of the pass failed.
C6_DeletionAlwaysRuns ==
    \A p \in Procs :
       PassDone(p) =>
          \A k \in Stale(p) :
             /\ k \notin DOMAIN am
             /\ \E c \in CallsOf(calls[p], "DelIA") : c.ia = IA(k) /\ calls[p][c] = 1

\* A pass in which an AddIA failed has removed a stale key.
C6_Witness ==
    /\ PassDone(Writer)
    /\ Failed(Writer, "AddIA") # {}
    /\ Stale(Writer) # {}
    /\ \A k \in Stale(Writer) : k \notin DOMAIN am

\* C7: ReloadConfig returns true exactly when no call of the pass failed:
\* every AddIA of an AS of cfg returned an entry, every ASEntry.ReloadConfig
\* on such an entry returned true and every DelIA of a stale ia returned no
\* error (its Cleanup included).
C7_ReloadConfigResult ==
    \A p \in Procs :
       PassDone(p) =>
          /\ ret[p].ok <=>
                (Failed(p, "AddIA") \cup Failed(p, "ASEntry.ReloadConfig") \cup Failed(p, "DelIA")) = {}
          /\ \A x \in DOMAIN cfg[p] : \E c \in CallsOf(calls[p], "AddIA") : c.ia = x
          /\ \A c \in CallsOf(calls[p], "AddIA") :
                c.err = "nil" =>
                   \E d \in CallsOf(calls[p], "ASEntry.ReloadConfig") : d.ia = c.ia /\ d.ae = c.ae
          /\ \A c \in CallsOf(calls[p], "Cleanup") :
                \E d \in CallsOf(calls[p], "DelIA") : d.ia = c.ia /\ d.err = c.err

\* A pass has returned false for one failure only, the Cleanup of a
\* DelIA, its AddIA and ASEntry.ReloadConfig having succeeded.
C7_Witness ==
    /\ PassDone(Writer)
    /\ ~ret[Writer].ok
    /\ Failed(Writer, "AddIA") = {}
    /\ Failed(Writer, "ASEntry.ReloadConfig") = {}
    /\ CallsOf(calls[Writer], "ASEntry.ReloadConfig") # {}
    /\ Cardinality(Failed(Writer, "DelIA")) = 1

\* The ASMap agrees with cfg on x.
AgreesWithCfg(p, x) == IAInt(x) \in DOMAIN am <=> x \in DOMAIN cfg[p]

\* x is as it was before the pass: absent, or present with the same entry.
AsBefore(p, x) ==
    LET k == IAInt(x)
    IN /\ k \in DOMAIN am <=> k \in DOMAIN pre[p]
       /\ k \in DOMAIN am => am[k] = pre[p][k]

\* The ias an AddIA, or a DelIA, of the pass succeeded for, and failed for.
Succeeded(p) ==
    {c.ia : c \in {d \in CallsOf(calls[p], "AddIA") \cup CallsOf(calls[p], "DelIA") : d.err = "nil"}}
AddFailed(p) == {c.ia : c \in Failed(p, "AddIA")}
DelFailed(p) == {c.ia : c \in Failed(p, "DelIA")}

\* C8 as stated: after a pass the ASMap agrees with cfg on every ia whose
\* AddIA or DelIA succeeded, and every ia whose AddIA or DelIA failed is as
\* it was before the pass.
C8_Original ==
    \A p \in Procs :
       PassDone(p) =>
          /\ \A x \in Succeeded(p) : AgreesWithCfg(p, x)
          /\ \A x \in AddFailed(p) \cup DelFailed(p) : AsBefore(p, x)

\* C8, amended: after a pass the ASMap agrees with cfg on every ia whose
\* AddIA or DelIA succeeded; every ia whose AddIA failed is as it was
\* before the pass; an ia whose DelIA failed (its Cleanup returned an
\* error) was in the ASMap before the pass and is not in it any more.
C8_Convergence ==
    \A p \in Procs :
       PassDone(p) =>
          /\ \A x \in Succeeded(p) : AgreesWithCfg(p, x)
          /\ \A x \in AddFailed(p) : AsBefore(p, x)
          /\ \A x \in DelFailed(p) :
                /\ IAInt(x) \in DOMAIN pre[p]
                /\ IAInt(x) \notin DOMAIN am
                /\ AgreesWithCfg(p, x)

\* A pass with an AddIA that succeeded, an AddIA that failed and a DelIA
\* that failed.
C8_Witness ==
    /\ PassDone(Writer)
    /\ \E c \in CallsOf(calls[Writer], "AddIA") : c.err = "nil" /\ IAInt(c.ia) \notin DOMAIN pre[Writer]
    /\ AddFailed(Writer) # {}
    /\ DelFailed(Writer) # {}

\* C9: with a single writer, whenever no DelIA is between its Delete and its
\* return, the keys of the ASMap are those of the ias for which an AddIA
\* has succeeded and no DelIA has returned since.
C9_KeySet ==
    (\A p \in Procs : pc[p] # "del_cleanup") =>
       DOMAIN am = {IAInt(x) : x \in DOMAIN live}

\* A pass has returned that added a key and removed one.
C9_Witness ==
    /\ PassDone(Writer)
    /\ DOMAIN am \ DOMAIN pre[Writer] # {}
    /\ DOMAIN pre[Writer] \ DOMAIN am # {}
    /\ DOMAIN live # {}

\* C10: two AddIA calls for different non-wildcard ias that run at the same
\* time: each returns an entry unless its own newASEntry failed, and once
\* both have returned, the entry each returned is in the ASMap under its
\* own key.
C10_ConcurrentAddIA ==
    \A p, q \in Procs :
       (/\ p # q
        /\ pc[p] = "done" /\ pc[q] = "done"
        /\ op[p] = "AddIA" /\ op[q] = "AddIA"
        /\ IsConcrete(ia[p]) /\ IsConcrete(ia[q])
        /\ ia[p] # ia[q]) =>
           /\ ret[p].ok <=> Failed(p, "newASEntry") = {}
           /\ ret[p].ok =>
                 /\ IAInt(ia[p]) \in DOMAIN am
                 /\ am[IAInt(ia[p])] = ret[p].ae
                 /\ ret[p].ae \in 1..Len(asEntries)
                 /\ asEntries[ret[p].ae].ia = ia[p]
                 /\ ret[p].ae # ret[q].ae

\* Both calls have created and stored an entry, and each began before the
\* other's Store.
C10_Witness ==
    \E p, q \in Procs :
       /\ p # q
       /\ pc[p] = "done" /\ pc[q] = "done"
       /\ op[p] = "AddIA" /\ op[q] = "AddIA"
       /\ ret[p].ok /\ ret[q].ok
       /\ ia[p] # ia[q]
       /\ IAInt(ia[p]) \notin DOMAIN pre[q]
       /\ IAInt(ia[q]) \notin DOMAIN pre[p]
       /\ {IAInt(ia[p]), IAInt(ia[q])} \subseteq DOMAIN am


\* Cleanup has begun on entry e, or DelIA has come to its call.
CleanupBegun(e) ==
    \/ asEntries[e].cleanups > 0
    \/ \E q \in Procs : pc[q] = "del_cleanup" /\ ae[q] = e

\* In this step the ASEntry p is in returns.
ASEntryReturns(p) == pc[p] = "lookup_load" /\ pc'[p] = "done"

\* In this step the Range p is in calls f.
RangeCallsF(p) ==
    /\ pc[p] = "range_visit"
    /\ pc'[p] = "range_visit"
    /\ ae'[p] # Nil
    /\ <<ia'[p], ae'[p]>> # <<ia[p], ae[p]>>

\* C11: DelIA deletes the key before it calls Cleanup: with one writer and a
\* goroutine that reads at the same time, no ASEntry returns an entry, and
\* no Range gives its callback an entry, that Cleanup has begun on.
C11_NotPresentOnceCleanupBegun ==
    [][\A p \in Procs :
          /\ ASEntryReturns(p) /\ ret'[p].ae # Nil => ~CleanupBegun(ret'[p].ae)
          /\ RangeCallsF(p) => ~CleanupBegun(ae'[p])
          /\ \A e \in 1..Len(asEntries) :
               CleanupBegun(e) => \A k \in DOMAIN am : am[k] # e]_vars

\* ASEntry(x) was called when DelIA(x) had deleted the key of x and was at
\* its call of Cleanup, and has returned nil while DelIA is still there.
C11_Witness ==
    /\ pc[Writer] = "del_cleanup"
    /\ IAInt(ia[Writer]) \in DOMAIN pre[Writer]
    /\ pc[Reader] = "done"
    /\ op[Reader] = "ASEntry"
    /\ ia[Reader] = ia[Writer]
    /\ IAInt(ia[Reader]) \notin DOMAIN pre[Reader]
    /\ ret[Reader].ae = Nil

\* C12: ASEntry leaves the ASMap as it is, and also while AddIA or DelIA is
\* at work on the same ia it returns nil, when the ia has no key at its
\* Load, or else the entry under the key, which newASEntry made for that ia.
C12_Lookup ==
    [][\A p \in Procs :
          /\ op'[p] = "ASEntry" /\ pc'[p] # pc[p] => am' = am /\ asEntries' = asEntries
          /\ ASEntryReturns(p) =>
               LET r == ret'[p].ae
                   k == IAInt(ia[p])
               IN  IF k \in DOMAIN am
                   THEN /\ r = am[k]
                        /\ r \in 1..Len(asEntries)
                        /\ asEntries[r].ia = ia[p]
                        /\ ret'[p].ok
                   ELSE r = Nil /\ ~ret'[p].ok]_vars

\* ASEntry(x) has returned an entry, and has returned nil, while AddIA(x) or
\* DelIA(x) was at work.
C12_Witness ==
    /\ pc[Writer] \in InAddIA \cup InDelIA
    /\ pc[Reader] = "done"
    /\ op[Reader] = "ASEntry"
    /\ ia[Reader] = ia[Writer]
    /\ ~alone[Reader]
    /\ ret[Reader].ae # Nil
    /\ IAInt(ia[Reader]) \notin DOMAIN am

\* AddIA(x) of p has returned an entry.
AddIAOk(p) == pc[p] = "done" /\ op[p] = "AddIA" /\ ret[p].ok

\* How often p called fn in the method it is in.
NumCalls(p, fn) ==
    LET RECURSIVE Sum(_)
        Sum(S) == IF S = {} THEN 0
                  ELSE LET c == CHOOSE d \in S : TRUE IN calls[p][c] + Sum(S \ {c})
    IN Sum(CallsOf(calls[p], fn))

\* C13 as the spec states it: whenever AddIA calls for one ia that was absent
\* when they began have returned, newASEntry has made one entry for it, the
\* calls have returned the same entry, and it is the one in the ASMap.
C13_Original ==
    \A p, q \in Procs :
       (/\ p # q
        /\ AddIAOk(p) /\ AddIAOk(q)
        /\ ia[p] = ia[q]
        /\ IAInt(ia[p]) \notin DOMAIN pre[p]
        /\ IAInt(ia[q]) \notin DOMAIN pre[q]) =>
           /\ made[ia[p]] = 1
           /\ ret[p].ae = ret[q].ae
           /\ IAInt(ia[p]) \in DOMAIN am
           /\ am[IAInt(ia[p])] = ret[p].ae

\* C13, amended: an AddIA call invokes newASEntry at most once, so at most
\* once per goroutine; it returns an entry newASEntry made for its ia, and
\* the ASMap holds one made for that ia; the entry it returns is the one in
\* the ASMap if one entry only was made for the ia, or if no other call
\* overlapped it, and then no entry is made for an ia that was present.
C13_AddIARace ==
    /\ \A x \in ISD_AS : made[x] <= Cardinality(Procs)
    /\ \A p \in Procs :
          AddIAOk(p) =>
             LET k == IAInt(ia[p])
             IN  /\ NumCalls(p, "newASEntry") <= 1
                 /\ ret[p].ae \in 1..Len(asEntries)
                 /\ asEntries[ret[p].ae].ia = ia[p]
                 /\ k \in DOMAIN am
                 /\ am[k] \in 1..Len(asEntries)
                 /\ asEntries[am[k]].ia = ia[p]
                 /\ made[ia[p]] = 1 => ret[p].ae = am[k]
                 /\ alone[p] => ret[p].ae = am[k]
                 /\ alone[p] /\ k \in DOMAIN pre[p] =>
                       NumCalls(p, "newASEntry") = 0 /\ ret[p].ae = pre[p][k]

\* Two AddIA calls for one ia, absent when each began, have each made an
\* entry and returned it: the entries differ, and one of them is stored.
C13_Witness ==
    \E p, q \in Procs :
       /\ p # q
       /\ AddIAOk(p) /\ AddIAOk(q)
       /\ ia[p] = ia[q]
       /\ IAInt(ia[p]) \notin DOMAIN pre[p]
       /\ IAInt(ia[q]) \notin DOMAIN pre[q]
       /\ ret[p].ae # ret[q].ae
       /\ made[ia[p]] = 2
       /\ am[IAInt(ia[p])] = ret[q].ae

\* DelIA(x) of p has returned.
DelIADone(p) == pc[p] = "done" /\ op[p] = "DelIA"

\* C14 as the spec states it: no entry has Cleanup invoked on it more than
\* once, and of two DelIA calls for one ia that began while the same entry
\* was under its key, one removes it and the other returns not found.
C14_Original ==
    /\ \A e \in 1..Len(asEntries) : asEntries[e].cleanups <= 1
    /\ \A p, q \in Procs :
          (/\ p # q
           /\ DelIADone(p) /\ DelIADone(q)
           /\ ia[p] = ia[q]
           /\ IAInt(ia[p]) \in DOMAIN pre[p] \cap DOMAIN pre[q]
           /\ pre[p][IAInt(ia[p])] = pre[q][IAInt(ia[p])]) =>
              (ret[p].err = "notfound") # (ret[q].err = "notfound")

\* C14, amended: a DelIA call invokes Cleanup at most once, and not at all
\* when it returns not found, so an entry has Cleanup invoked on it at most
\* once per goroutine; no key maps to an entry from the moment a DelIA is at
\* its Cleanup call; a DelIA no other call overlaps invokes Cleanup, on the
\* entry that was under the key, if the key was present, and that is the
\* only Cleanup of that entry, and it returns not found if the key was not.
C14_DelIARace ==
    /\ \A e \in 1..Len(asEntries) :
          /\ asEntries[e].cleanups <= Cardinality(Procs)
          /\ CleanupBegun(e) => \A k \in DOMAIN am : am[k] # e
    /\ \A p \in Procs :
          DelIADone(p) =>
             LET k == IAInt(ia[p])
             IN  /\ NumCalls(p, "Cleanup") <= 1
                 /\ ret[p].err = "notfound" <=> NumCalls(p, "Cleanup") = 0
                 /\ alone[p] /\ k \notin DOMAIN pre[p] => ret[p].err = "notfound"
                 /\ alone[p] /\ k \in DOMAIN pre[p] =>
                       /\ NumCleanups(calls[p], pre[p][k]) = 1
                       /\ asEntries[pre[p][k]].cleanups = 1

\* Two DelIA calls for one ia began while the same entry was under its key:
\* neither has returned not found, and Cleanup was invoked twice on the
\* entry.
C14_Witness ==
    \E p, q \in Procs :
       /\ p # q
       /\ DelIADone(p) /\ DelIADone(q)
       /\ ia[p] = ia[q]
       /\ IAInt(ia[p]) \in DOMAIN pre[p] \cap DOMAIN pre[q]
       /\ pre[p][IAInt(ia[p])] = pre[q][IAInt(ia[p])]
       /\ ret[p].err # "notfound"
       /\ ret[q].err # "notfound"
       /\ asEntries[pre[p][IAInt(ia[p])]].cleanups = 2

\* No call p made in its pass has failed, and the pass has returned true.
CleanPass(p) == PassDone(p) /\ ret[p].ok /\ \A c \in DOMAIN calls[p] : c.err = "nil"

\* The keys of the ias of cfg[p].
CfgKeys(p) == {IAInt(x) : x \in DOMAIN cfg[p]}

\* C15: ReloadConfig passes of two goroutines can end in a torn outcome (the
\* witness: both passes are over, no call has failed, and the keys of the
\* ASMap are those of neither configuration), and they do so only by
\* running at the same time: when no pass has overlapped another and no
\* call has failed, the keys are those of the configuration of one of the
\* passes, no ia has had two entries made and no entry two Cleanups.
C15_TornOnlyWhenRacing ==
    (/\ \A p \in Procs : pc[p] = "idle" \/ CleanPass(p)
     /\ \A p \in Procs : alone[p]
     /\ \E p \in Procs : PassDone(p)) =>
        /\ \E p \in Procs : PassDone(p) /\ DOMAIN am = CfgKeys(p)
        /\ \A x \in ISD_AS : made[x] <= 1
        /\ \A e \in 1..Len(asEntries) : asEntries[e].cleanups <= 1

\* Both passes are over and have returned true, no call has failed, and the
\* keys of the ASMap are those of neither configuration.
C15_Witness ==
    /\ \A p \in Procs : CleanPass(p)
    /\ \A p \in Procs : DOMAIN am # CfgKeys(p)

\* The places of addNewIAs, and those of delOldIAs outside DelIA.
InAddNewIAs == {"addNew_loop", "addNew_apply"} \cup InAddIA
InDelOldIAs == {"delOld_range", "delOld_visit"}

\* The calls of fn in the pass of p that were given ia x.
CallsFor(p, fn, x) == {c \in CallsOf(calls[p], fn) : c.ia = x}

\* C16: in one ReloadConfig pass every AddIA call and every call of
\* ASEntry.ReloadConfig comes before the first DelIA call: while the pass is
\* in addNewIAs no DelIA and no Cleanup has been called, and once it is in
\* delOldIAs AddIA has been called for every AS of cfg, and
\* ASEntry.ReloadConfig for every AS that AddIA returned an entry for.
C16_AddsBeforeDeletes ==
    \A p \in Procs :
       op[p] = "ReloadConfig" =>
          /\ pc[p] \in InAddNewIAs =>
                CallsOf(calls[p], "DelIA") = {} /\ CallsOf(calls[p], "Cleanup") = {}
          /\ (pc[p] \in InDelOldIAs \cup InDelIA \/ CallsOf(calls[p], "DelIA") # {}) =>
                \A x \in DOMAIN cfg[p] :
                   /\ CallsFor(p, "AddIA", x) # {}
                   /\ (\E c \in CallsFor(p, "AddIA", x) : c.err = "nil") =>
                         CallsFor(p, "ASEntry.ReloadConfig", x) # {}

\* The pass is in its first DelIA, after two AddIA calls, one that failed
\* and one whose entry was given its configuration.
C16_Witness ==
    /\ op[Writer] = "ReloadConfig"
    /\ pc[Writer] \in InDelIA
    /\ CallsOf(calls[Writer], "DelIA") = {}
    /\ Failed(Writer, "AddIA") # {}
    /\ CallsOf(calls[Writer], "ASEntry.ReloadConfig") # {}

\* How often p called fn with ia x in the method it is in.
NumCallsFor(p, fn, x) ==
    LET RECURSIVE Sum(_)
        Sum(S) == IF S = {} THEN 0
                  ELSE LET c == CHOOSE d \in S : TRUE IN calls[p][c] + Sum(S \ {c})
    IN Sum(CallsFor(p, fn, x))

\* C17: a failure for one key does not end a sweep: when a pass is over,
\* AddIA has been called once for every AS of cfg, whatever failed, and for
\* no other ia, and DelIA once for every ia that had a key when the pass
\* began and is not in cfg, and for no other ia.
C17_SweepsAreComplete ==
    \A p \in Procs :
       PassDone(p) =>
          \A x \in ISD_AS :
             /\ NumCallsFor(p, "AddIA", x) = (IF x \in DOMAIN cfg[p] THEN 1 ELSE 0)
             /\ NumCallsFor(p, "DelIA", x) = (IF IAInt(x) \in Stale(p) THEN 1 ELSE 0)

\* A pass is over in which two AddIA calls were made, one of which failed,
\* and two DelIA calls, one of which failed.
C17_Witness ==
    /\ PassDone(Writer)
    /\ Failed(Writer, "AddIA") # {}
    /\ NumCalls(Writer, "AddIA") = 2
    /\ Failed(Writer, "DelIA") # {}
    /\ NumCalls(Writer, "DelIA") = 2

\* C18: a single-writer pass calls neither DelIA nor Cleanup for an ia of
\* cfg; an ia of cfg that had a key when the pass began has the same entry
\* under it when the pass is over, newASEntry was not called for it, and
\* ASEntry.ReloadConfig was called once, on that entry, with the
\* configuration cfg has for the ia.
C18_KeptEntries ==
    \A p \in Procs :
       op[p] = "ReloadConfig" =>
          /\ \A c \in CallsOf(calls[p], "DelIA") \cup CallsOf(calls[p], "Cleanup") :
                c.ia \notin DOMAIN cfg[p]
          /\ \A x \in DOMAIN cfg[p] :
                IAInt(x) \in DOMAIN pre[p] =>
                   /\ IAInt(x) \in DOMAIN am
                   /\ am[IAInt(x)] = pre[p][IAInt(x)]
                   /\ asEntries[am[IAInt(x)]].cleanups = 0
                   /\ CallsFor(p, "newASEntry", x) = {}
                   /\ PassDone(p) =>
                         /\ NumCallsFor(p, "ASEntry.ReloadConfig", x) = 1
                         /\ \A c \in CallsFor(p, "ASEntry.ReloadConfig", x) :
                               c.ae = pre[p][IAInt(x)] /\ c.ia = cfg[p][x].of

\* A pass is over for a configuration with an ia that had a key and one
\* that had none, when a third ia had a key: the first entry was kept.
C18_Witness ==
    /\ PassDone(Writer)
    /\ \E x \in DOMAIN cfg[Writer] : IAInt(x) \in DOMAIN pre[Writer]
    /\ \E x \in DOMAIN cfg[Writer] : IAInt(x) \notin DOMAIN pre[Writer]
    /\ CallsOf(calls[Writer], "Cleanup") # {}

\* C19: when AddIA returns an entry and ASEntry.ReloadConfig returns false
\* on it, the entry is not destroyed: it is under its key when the pass is
\* over, Cleanup was not called on it, the pass went on (C17: AddIA for
\* every AS of cfg, DelIA for every other key), and ReloadConfig returns
\* false.
C19_ApplyFailureKeepsEntry ==
    \A p \in Procs :
       PassDone(p) =>
          \A c \in Failed(p, "ASEntry.ReloadConfig") :
             /\ IAInt(c.ia) \in DOMAIN am
             /\ am[IAInt(c.ia)] = c.ae
             /\ asEntries[c.ae].cleanups = 0
             /\ NumCleanups(calls[p], c.ae) = 0
             /\ Call("AddIA", c.ia, c.ae, "nil") \in DOMAIN calls[p]
             /\ \A x \in DOMAIN cfg[p] : CallsFor(p, "AddIA", x) # {}
             /\ \A k \in Stale(p) : CallsFor(p, "DelIA", IA(k)) # {}
             /\ ~ret[p].ok

\* A pass is over in which ASEntry.ReloadConfig returned false and nothing
\* else failed, and which went on to a DelIA.
C19_Witness ==
    /\ PassDone(Writer)
    /\ Failed(Writer, "ASEntry.ReloadConfig") # {}
    /\ Failed(Writer, "AddIA") = {}
    /\ Failed(Writer, "DelIA") = {}
    /\ CallsOf(calls[Writer], "DelIA") # {}
    /\ ~ret[Writer].ok

\* The keys of the ASMap that map to entry e.
KeysOf(e) == {k \in DOMAIN am : am[k] = e}

\* Entry e is in the hands of an AddIA that has created it and has yet to
\* store it, or of a DelIA that has deleted its key and has yet to call
\* Cleanup.
InHand(e) == \E p \in Procs : pc[p] \in {"add_store", "del_cleanup"} /\ ae[p] = e

\* C20: with a single writer no entry is leaked or aliased: every entry
\* newASEntry has created is under no key but that of its own ia, and it is
\* either under that key or has had Cleanup called on it once, not both and
\* not neither; only in the AddIA that creates it, before its Store, and in
\* the DelIA that removes it, before its Cleanup, it is neither yet.
C20_NoLeakNoAlias ==
    \A e \in 1..Len(asEntries) :
       /\ KeysOf(e) \subseteq {IAInt(asEntries[e].ia)}
       /\ asEntries[e].cleanups <= 1
       /\ IF InHand(e)
          THEN KeysOf(e) = {} /\ asEntries[e].cleanups = 0
          ELSE (KeysOf(e) # {}) # (asEntries[e].cleanups = 1)

\* AddIA, DelIA and AddIA again of one ia are over: its first entry has had
\* its Cleanup, and its second is under its key.
C20_Witness ==
    /\ pc[Writer] \in {"idle", "done"}
    /\ \E e, f \in 1..Len(asEntries) :
          /\ e # f
          /\ asEntries[e].ia = asEntries[f].ia
          /\ asEntries[e].cleanups = 1
          /\ KeysOf(e) = {}
          /\ KeysOf(f) = {IAInt(asEntries[f].ia)}
          /\ asEntries[f].cleanups = 0
=============================================================================
